---- MODULE Spec2Model ----
(***************************************************************************)
(* Model of the two command-line scripts of ocean-current-api:             *)
(*   scripts/trigger_fatal_log.py  - resolve the endpoint, fetch the EC2   *)
(*       PKCS7 identity from IMDS (v2 token, v1 fallback), POST a fatal    *)
(*       log to the monitoring endpoint, exit 0/1;                         *)
(*   scripts/test_local_auth.py    - three assertions against the          *)
(*       endpoint, exit 0/1.                                               *)
(* Text (file contents, HTTP bodies, header values) is a sequence of       *)
(* one-character strings so that str.strip() and truthiness are computed.  *)
(***************************************************************************)
EXTENDS Integers, Sequences, FiniteSets, TLC

VARIABLES
    script,                  \* which script this process runs
    argv,                    \* sys.argv (argv[1] is the script name)
    fs,                      \* the two config files, as the process finds them
    environ,                 \* os.environ["OC_API_ENDPOINT"]
    pc,                      \* position of the process
    OC_API_ENDPOINT,         \* module-level global of trigger_fatal_log
    token,                   \* result of get_imds_token()
    pkcs7,                   \* result of fetch_instance_identity()
    fetchError,              \* which except branch of fetch_instance_identity ran
    success,                 \* result of send_fatal_log()
    auth_enforcement_passed, \* test_local_auth: result of assertion 1
    pkcs7_signature,         \* test_local_auth: result of fetch_ec2_identity()
    ec2_validation_passed,   \* test_local_auth: result of assertion 2
    fields_validation_passed,\* test_local_auth: result of assertion 3
    calls,                   \* every network call issued so far, in order
    answers,                 \* answers[i] is what came back for calls[i]
    out,                     \* markers of the lines printed to stdout/stderr
    exitCode                 \* <<>> while running, <<c>> after sys.exit(c)

vars == <<script, argv, fs, environ, pc, OC_API_ENDPOINT, token, pkcs7,
          fetchError, success, auth_enforcement_passed, pkcs7_signature,
          ec2_validation_passed, fields_validation_passed, calls, answers,
          out, exitCode>>

inputVars == <<script, argv, fs, environ>>
triggerVars == <<OC_API_ENDPOINT, token, pkcs7, fetchError, success>>
netVars == <<calls, answers>>
harnessVars == <<auth_enforcement_passed, pkcs7_signature,
                 ec2_validation_passed, fields_validation_passed>>

----------------------------------------------------------------------------
(* Bounds *)

MaxConfLen == 2      \* longest config-file / environment text (SpecLoad)
MaxBodyLen == 1      \* longest metadata-service response body

----------------------------------------------------------------------------
(* Program constants *)

METADATA_TIMEOUT == 2
IMDS_TOKEN_TTL_SECONDS == 21600
POST_TIMEOUT == 10

IMDS_TOKEN_URL == "http://169.254.169.254/latest/api/token"
INSTANCE_IDENTITY_PKCS7_URL ==
    "http://169.254.169.254/latest/dynamic/instance-identity/pkcs7"
LOCAL_URL == "http://localhost:8080/api/v1/monitoring/fatal-log"
EC2_METADATA_URL == "http://169.254.169.254/latest/dynamic/instance-identity"

----------------------------------------------------------------------------
(* Text, None and truthiness *)

Whitespace == {" "}
Chars == {" ", "a"}

Text(n) == UNION {[1..k -> Chars] : k \in 0..n}

\* Python's None, kept comparable with Text
None == <<"<None>">>

\* bool(x) for x a str or None
Truthy(x) == x # None /\ x # <<>>

RECURSIVE LStrip(_)
LStrip(s) == IF s = <<>> \/ Head(s) \notin Whitespace THEN s
             ELSE LStrip(Tail(s))

RECURSIVE RStrip(_)
RStrip(s) == IF s = <<>> \/ s[Len(s)] \notin Whitespace THEN s
             ELSE RStrip(SubSeq(s, 1, Len(s) - 1))

\* str.strip()
Strip(s) == RStrip(LStrip(s))

----------------------------------------------------------------------------
(* The environment: files, environment variable, network outcomes *)

Absent == <<"<absent>">>          \* os.path.exists() is False
Unreadable == <<"<unreadable>">>  \* exists, open()/read() raises

FileStates(texts) == {Absent, Unreadable} \cup texts
EnvValues(texts) == {None} \cup texts

\* the config texts full runs start from: empty, blank, an endpoint
RunTexts == { <<>>, <<" ">>, <<"a">> }

Statuses == {200, 304, 401}

Exceptions == {"Timeout", "ConnectionError", "RequestException"}

\* outcome of a call to the metadata service
MetadataOutcomes ==
    {[kind |-> e] : e \in Exceptions}
    \cup {[kind |-> "Response", status |-> s, body |-> b] :
            s \in Statuses, b \in Text(MaxBodyLen)}

\* outcome of a call to the monitoring endpoint; json tells what
\* response.json() gives: a dict, another JSON value, or a decode error
JsonKinds == {"object", "other", "invalid"}

MonitoringOutcomes ==
    {[kind |-> e] : e \in Exceptions}
    \cup {[kind |-> "Response", status |-> s, json |-> j] :
            s \in Statuses, j \in JsonKinds}

IsResponse(r) == r.kind = "Response"

\* Response.raise_for_status(): HTTPError for 4xx and 5xx
RaisesForStatus(r) == IsResponse(r) /\ r.status >= 400 /\ r.status < 600

----------------------------------------------------------------------------
(* trigger_fatal_log.py *)

\* faulty variant: the two locations tried in the other order
config_locations_LocalFirst == <<"local", "system">>

\* _load_api_endpoint(), lines 56-59
config_locations == <<"system", "local">>

RECURSIVE LoadFrom(_, _, _)
LoadFrom(locs, files, env) ==
    IF locs = <<>> THEN env
    ELSE LET f == files[Head(locs)] IN
         IF f # Absent /\ f # Unreadable /\ Strip(f) # <<>>
         THEN Strip(f)
         ELSE LoadFrom(Tail(locs), files, env)

\* _load_api_endpoint()
_load_api_endpoint(files, env) == LoadFrom(config_locations, files, env)

\* module import: OC_API_ENDPOINT = _load_api_endpoint()
LoadApiEndpoint ==
    /\ script = "trigger_fatal_log"
    /\ pc = "load"
    /\ OC_API_ENDPOINT' = _load_api_endpoint(fs, environ)
    /\ pc' = "main"
    /\ UNCHANGED <<inputVars, token, pkcs7, fetchError, success, harnessVars,
                   netVars, out, exitCode>>

----------------------------------------------------------------------------
(* Command lines of trigger_fatal_log, argv[1] being the script name *)

SCRIPT_NAME == "trigger_fatal_log.py"

TriggerArgvs ==
    { <<SCRIPT_NAME>>,
      <<SCRIPT_NAME, "disk full">>,
      <<SCRIPT_NAME, "disk full", "startup">>,
      <<SCRIPT_NAME, "disk full", "", "db=postgres">> }

\* a missing optional argument (None where a str is expected)
NoArg == "<None>"

ArgTruthy(a) == a # NoArg /\ a # ""

error_message(av) == av[2]
source_type(av) == IF Len(av) > 2 THEN av[3] ELSE NoArg
additional_context(av) == IF Len(av) > 3 THEN av[4] ELSE NoArg

\* what the run reads from its host besides the network
Clock == {"2026-11-04T00:00:00Z"}   \* datetime.utcnow().strftime(...)
Pids == {"4242"}                    \* os.getpid()
PythonVersions == {"3.6.8"}         \* sys.version.split()[0]

Exit(c) == <<c>>
Running == <<>>

\* the exception classes the two except clauses of the scripts tell apart
IsTimeout(r) == r.kind = "Timeout"
IsException(r) == r.kind \in Exceptions

\* faulty variant: tests "is None" where the code tests falsiness
EndpointMissing_IsNone(ep) == ep = None

\* main(), lines 216-233: validate the endpoint, then the arguments
EndpointMissing(ep) == ~Truthy(ep)

MainValidate ==
    /\ script = "trigger_fatal_log"
    /\ pc = "main"
    /\ IF EndpointMissing(OC_API_ENDPOINT)
       THEN /\ out' = Append(out, "ERROR: OC_API_ENDPOINT not set")
            /\ exitCode' = Exit(1)
            /\ pc' = "exited"
       ELSE IF Len(argv) < 2
       THEN /\ out' = Append(out, "Usage")
            /\ exitCode' = Exit(1)
            /\ pc' = "exited"
       ELSE /\ out' = Append(out, "EC2 Instance Fatal Log Trigger")
            /\ exitCode' = exitCode
            /\ pc' = "get_imds_token"
    /\ UNCHANGED <<inputVars, triggerVars, harnessVars, netVars>>

\* get_imds_token(), called first thing by fetch_instance_identity()
TokenFailure(r) ==
    IF IsException(r) THEN r.kind
    ELSE IF RaisesForStatus(r) THEN "HTTPError"
    ELSE "none"

GetImdsToken ==
    /\ script = "trigger_fatal_log"
    /\ pc = "get_imds_token"
    /\ \E r \in MetadataOutcomes :
         /\ calls' = Append(calls,
                [method |-> "PUT", url |-> IMDS_TOKEN_URL,
                 headers |-> ("X-aws-ec2-metadata-token-ttl-seconds"
                                :> ToString(IMDS_TOKEN_TTL_SECONDS)),
                 timeout |-> METADATA_TIMEOUT])
         /\ answers' = Append(answers, r)
         /\ IF TokenFailure(r) # "none"
            THEN /\ token' = None
                 /\ out' = Append(out, "WARNING: Failed to get IMDSv2 token")
            ELSE /\ token' = r.body
                 /\ out' = out
    /\ pc' = "get_pkcs7"
    /\ UNCHANGED <<inputVars, OC_API_ENDPOINT, pkcs7, fetchError, success,
                   harnessVars, exitCode>>

\* faulty variant: the token is never attached
TokenHeaders_Dropped(t) == <<>>

\* fetch_instance_identity(), lines 112-136, after the token came back
TokenHeaders(t) ==
    IF Truthy(t) THEN ("X-aws-ec2-metadata-token" :> t) ELSE <<>>

\* the except clause that handles outcome r of the PKCS7 GET, if any
FetchFailure(r) ==
    IF IsTimeout(r) THEN "Timeout"
    ELSE IF IsException(r) \/ RaisesForStatus(r) THEN "RequestException"
    ELSE "none"

\* the value fetch_instance_identity() returns when nothing was raised
FetchedSignature(r) == r.body

FetchInstanceIdentity ==
    /\ script = "trigger_fatal_log"
    /\ pc = "get_pkcs7"
    /\ \E r \in MetadataOutcomes :
         /\ calls' = Append(calls,
                [method |-> "GET", url |-> INSTANCE_IDENTITY_PKCS7_URL,
                 headers |-> TokenHeaders(token),
                 timeout |-> METADATA_TIMEOUT])
         /\ answers' = Append(answers, r)
         /\ fetchError' = FetchFailure(r)
         /\ LET mode == IF Truthy(token) THEN "Using IMDSv2 (secure mode)"
                        ELSE "Using IMDSv1 (fallback mode)"
            IN CASE FetchFailure(r) = "Timeout" ->
                      /\ pkcs7' = None
                      /\ out' = out \o <<mode,
                                  "ERROR: Timeout fetching EC2 metadata">>
                 [] FetchFailure(r) = "RequestException" ->
                      /\ pkcs7' = None
                      /\ out' = out \o <<mode,
                                  "ERROR: Failed to fetch EC2 metadata">>
                 [] OTHER ->
                      /\ pkcs7' = FetchedSignature(r)
                      /\ out' = out \o <<mode,
                                  "Successfully fetched instance identity">>
    /\ pc' = "check_identity"
    /\ UNCHANGED <<inputVars, OC_API_ENDPOINT, token, success, harnessVars,
                   exitCode>>

\* faulty variant: tests for the empty string only, lets None through
IdentityMissing_EmptyOnly(p) == p = <<>>

\* main(), lines 238-240
IdentityMissing(p) == ~Truthy(p)

MainCheckIdentity ==
    /\ script = "trigger_fatal_log"
    /\ pc = "check_identity"
    /\ IF IdentityMissing(pkcs7)
       THEN /\ out' = Append(out, "Failed to fetch instance identity. Exiting.")
            /\ exitCode' = Exit(1)
            /\ pc' = "exited"
       ELSE /\ out' = out
            /\ exitCode' = exitCode
            /\ pc' = "send_fatal_log"
    /\ UNCHANGED <<inputVars, triggerVars, harnessVars, netVars>>

\* ", ".join(parts)
RECURSIVE Join(_)
Join(parts) ==
    IF Len(parts) = 0 THEN ""
    ELSE IF Len(parts) = 1 THEN parts[1]
    ELSE parts[1] \o ", " \o Join(Tail(parts))

\* send_fatal_log(), lines 158-180: the request payload
Source(st) ==
    IF ArgTruthy(st) THEN "trigger-fatal-log/" \o st ELSE "trigger-fatal-log"

Context(ac, pid, ver) ==
    LET context_parts == <<"script=" \o SCRIPT_NAME, "pid=" \o pid,
                           "python=" \o ver>>
    IN Join(IF ArgTruthy(ac) THEN Append(context_parts, ac)
            ELSE context_parts)

Payload(em, p, st, ac, now, pid, ver) ==
    [pkcs7 |-> p, timestamp |-> now, errorMessage |-> em,
     source |-> Source(st), context |-> Context(ac, pid, ver)]

\* send_fatal_log(), lines 182-211: what becomes of outcome r of the POST.
\* "True"/"False" are the returned values, "raise" is an exception that no
\* except clause of the script catches.  A 200 answer whose body is not
\* JSON makes response.json() raise: requests >= 2.27 raises
\* requests.exceptions.JSONDecodeError, a RequestException (caught, line
\* 209); older releases raise a plain ValueError (not caught).  A 200
\* answer whose JSON is not an object makes result.get raise AttributeError.
SendResult(r, caught) ==
    IF IsResponse(r)
    THEN IF r.status = 200
         THEN CASE r.json = "object" -> "True"
                [] r.json = "other" -> "raise"
                [] r.json = "invalid" -> IF caught THEN "False" ELSE "raise"
         ELSE "False"
    ELSE "False"

SendOutput(r, caught) ==
    IF IsResponse(r)
    THEN IF r.status = 200
         THEN CASE r.json = "object" ->
                     <<"Fatal log sent successfully", "Status:", "Message:">>
                [] r.json = "other" ->
                     <<"Fatal log sent successfully", "Traceback">>
                [] r.json = "invalid" ->
                     IF caught
                     THEN <<"Fatal log sent successfully", "Request failed">>
                     ELSE <<"Fatal log sent successfully", "Traceback">>
         ELSE IF r.json = "object"
              THEN <<"Failed to send fatal log: HTTP", "Error:">>
              ELSE <<"Failed to send fatal log: HTTP", "Response:">>
    ELSE IF IsTimeout(r) THEN <<"Request timeout">>
    ELSE <<"Request failed">>

\* main(), lines 243-248: the call of send_fatal_log
SendFatalLog ==
    /\ script = "trigger_fatal_log"
    /\ pc = "send_fatal_log"
    /\ \E r \in MonitoringOutcomes, caught \in BOOLEAN,
          now \in Clock, pid \in Pids, ver \in PythonVersions :
         /\ calls' = Append(calls,
                [method |-> "POST", url |-> OC_API_ENDPOINT,
                 headers |-> ("Content-Type" :> "application/json"),
                 json |-> Payload(error_message(argv), pkcs7,
                                  source_type(argv), additional_context(argv),
                                  now, pid, ver),
                 timeout |-> POST_TIMEOUT])
         /\ answers' = Append(answers, r)
         /\ out' = out \o <<"Sending fatal log">> \o SendOutput(r, caught)
         /\ IF SendResult(r, caught) = "raise"
            THEN /\ success' = success
                 /\ exitCode' = Exit(1)
                 /\ pc' = "exited"
            ELSE /\ success' = SendResult(r, caught)
                 /\ exitCode' = exitCode
                 /\ pc' = "exit"
    /\ UNCHANGED <<inputVars, OC_API_ENDPOINT, token, pkcs7, fetchError,
                   harnessVars>>

\* main(), lines 250-252
MainExit ==
    /\ script = "trigger_fatal_log"
    /\ pc = "exit"
    /\ exitCode' = Exit(IF success = "True" THEN 0 ELSE 1)
    /\ pc' = "exited"
    /\ UNCHANGED <<inputVars, triggerVars, harnessVars, netVars, out>>

----------------------------------------------------------------------------
(* test_local_auth.py *)

USE_EC2_METADATA_FLAG == "--use-ec2-metadata"

HarnessArgvs ==
    { <<"test_local_auth.py">>,
      <<"test_local_auth.py", USE_EC2_METADATA_FLAG>> }

\* main(), line 205: '--use-ec2-metadata' in sys.argv
use_ec2_metadata(av) == \E i \in DOMAIN av : av[i] = USE_EC2_METADATA_FLAG

\* Python's bool as the scripts print and combine it
PyBool(b) == IF b THEN "True" ELSE "False"

\* the status an assertion that expects a rejection waits for
Rejected(r) == IsResponse(r) /\ r.status = 401

\* test_without_auth(), called at line 208
TestWithoutAuth ==
    /\ script = "test_local_auth"
    /\ pc = "test_without_auth"
    /\ \E r \in MonitoringOutcomes :
         /\ calls' = Append(calls,
                [method |-> "POST", url |-> LOCAL_URL, headers |-> <<>>,
                 json |-> [errorMessage |-> "Test without auth"],
                 timeout |-> POST_TIMEOUT])
         /\ answers' = Append(answers, r)
         /\ auth_enforcement_passed' = PyBool(Rejected(r))
         /\ out' = out \o
                IF IsException(r) THEN <<"1. Error">>
                ELSE IF Rejected(r) THEN <<"1. Authentication is enforced">>
                ELSE <<"1. Expected 401">>
    /\ pc' = "fetch_ec2_identity"
    /\ UNCHANGED <<inputVars, triggerVars, pkcs7_signature,
                   ec2_validation_passed, fields_validation_passed, exitCode>>

\* fetch_ec2_identity(): the value returned for outcome r of the GET
Ec2Signature(r) ==
    IF IsException(r) THEN None
    ELSE IF r.status # 200 THEN None
    ELSE Strip(r.body)

\* fetch_ec2_identity(use_ec2_metadata), called at line 212
FetchEc2Identity ==
    /\ script = "test_local_auth"
    /\ pc = "fetch_ec2_identity"
    /\ IF ~use_ec2_metadata(argv)
       THEN /\ pkcs7_signature' = None
            /\ calls' = calls
            /\ answers' = answers
            /\ out' = out \o <<"2. Testing with EC2 instance identity",
                               "PKCS7 signatures must be real">>
       ELSE \E r \in MetadataOutcomes :
            /\ calls' = Append(calls,
                   [method |-> "GET", url |-> EC2_METADATA_URL \o "/pkcs7",
                    headers |-> ("User-Agent" :> "aws-cli/2.0"),
                    timeout |-> METADATA_TIMEOUT])
            /\ answers' = Append(answers, r)
            /\ pkcs7_signature' = Ec2Signature(r)
            /\ out' = out \o <<"2. Testing with EC2 instance identity",
                               "Fetching EC2 identity">> \o
                   CASE IsTimeout(r) ->
                          <<"Timeout fetching EC2 metadata (not running on EC2)">>
                     [] r.kind = "ConnectionError" ->
                          <<"Cannot connect to EC2 metadata service (not running on EC2)">>
                     [] r.kind = "RequestException" ->
                          <<"Error fetching EC2 identity">>
                     [] OTHER ->
                          IF r.status # 200
                          THEN <<"Failed to fetch PKCS7 signature">>
                          ELSE <<>>
    /\ pc' = "test_with_ec2_identity"
    /\ UNCHANGED <<inputVars, triggerVars, auth_enforcement_passed,
                   ec2_validation_passed, fields_validation_passed, exitCode>>

\* main(), lines 214-215: test_with_ec2_identity(pkcs7_signature)
TestWithEc2Identity ==
    /\ script = "test_local_auth"
    /\ pc = "test_with_ec2_identity"
    /\ Truthy(pkcs7_signature)
    /\ \E r \in MonitoringOutcomes, now \in Clock :
         /\ calls' = Append(calls,
                [method |-> "POST", url |-> LOCAL_URL,
                 headers |-> ("Content-Type" :> "application/json"),
                 json |-> [pkcs7 |-> pkcs7_signature, timestamp |-> now,
                           errorMessage |-> "Local EC2 identity test"],
                 timeout |-> POST_TIMEOUT])
         /\ answers' = Append(answers, r)
         /\ ec2_validation_passed' = PyBool(IsResponse(r) /\ r.status = 200)
         /\ out' = out \o
                IF IsException(r) THEN <<"2. Error">>
                ELSE IF r.status = 200 THEN <<"2. Authentication successful">>
                ELSE <<"2. Authentication failed">>
    /\ pc' = "test_with_missing_fields"
    /\ UNCHANGED <<inputVars, triggerVars, auth_enforcement_passed,
                   pkcs7_signature, fields_validation_passed, exitCode>>

\* main(), lines 216-219: no signature, assertion 2 is not run
SkipEc2Identity ==
    /\ script = "test_local_auth"
    /\ pc = "test_with_ec2_identity"
    /\ ~Truthy(pkcs7_signature)
    /\ ec2_validation_passed' = "None"
    /\ out' = Append(out, "2. Note: PKCS7 signatures must be real")
    /\ pc' = "test_with_missing_fields"
    /\ UNCHANGED <<inputVars, triggerVars, auth_enforcement_passed,
                   pkcs7_signature, fields_validation_passed, netVars,
                   exitCode>>

\* faulty variant: the one request is sent a second time
test_cases_Resent(now) ==
    << [name |-> "Missing pkcs7",
        body |-> [timestamp |-> now, errorMessage |-> "Test"]],
       [name |-> "Missing pkcs7",
        body |-> [timestamp |-> now, errorMessage |-> "Test"]] >>

\* test_with_missing_fields(), lines 163-171
test_cases(now) ==
    << [name |-> "Missing pkcs7",
        body |-> [timestamp |-> now, errorMessage |-> "Test"]] >>

\* test_with_missing_fields(), called at line 222: one POST per test case
TestWithMissingFields ==
    /\ script = "test_local_auth"
    /\ pc = "test_with_missing_fields"
    /\ \E now \in Clock :
       \E rs \in [DOMAIN test_cases(now) -> MonitoringOutcomes] :
         /\ calls' = calls \o
                [i \in DOMAIN test_cases(now) |->
                   [method |-> "POST", url |-> LOCAL_URL,
                    headers |-> ("Content-Type" :> "application/json"),
                    json |-> test_cases(now)[i].body,
                    timeout |-> POST_TIMEOUT]]
         /\ answers' = answers \o rs
         /\ fields_validation_passed' =
                PyBool(\A i \in DOMAIN rs : Rejected(rs[i]))
         /\ out' = out \o
                [i \in DOMAIN rs |->
                   IF IsException(rs[i]) THEN "3. Error"
                   ELSE IF Rejected(rs[i]) THEN "3. Rejected (expected)"
                   ELSE "3. Status (expected 401)"]
    /\ pc' = "summary"
    /\ UNCHANGED <<inputVars, triggerVars, auth_enforcement_passed,
                   pkcs7_signature, ec2_validation_passed, exitCode>>

\* faulty variant: the exit code looks at assertion 1 only
AllPassed_AuthOnly(auth, fields) == auth = "True"

\* main(), line 247: all_passed
AllPassed(auth, fields) == auth = "True" /\ fields = "True"

\* main(), lines 231-233: status_ec2
StatusEc2(ec2) ==
    IF ec2 = "True" THEN "EC2 identity validation: PASSED"
    ELSE IF ec2 = "None" THEN "EC2 identity validation: SKIPPED"
    ELSE "EC2 identity validation: FAILED"

\* faulty variant: a failed assertion 2 fails the run
HarnessExit_GatedByEc2 ==
    /\ script = "test_local_auth"
    /\ pc = "summary"
    /\ out' = Append(out, StatusEc2(ec2_validation_passed))
    /\ exitCode' = Exit(IF /\ AllPassed(auth_enforcement_passed,
                                        fields_validation_passed)
                           /\ ec2_validation_passed # "False"
                        THEN 0 ELSE 1)
    /\ pc' = "exited"
    /\ UNCHANGED <<inputVars, triggerVars, harnessVars, netVars>>

\* main(), lines 224-248: the summary and the exit code
HarnessExit ==
    /\ script = "test_local_auth"
    /\ pc = "summary"
    /\ out' = out \o
         << "Authentication enforcement: " \o
               (IF auth_enforcement_passed = "True" THEN "PASSED" ELSE "FAILED"),
            "Missing fields validation: " \o
               (IF fields_validation_passed = "True" THEN "PASSED" ELSE "FAILED"),
            StatusEc2(ec2_validation_passed) >>
    /\ exitCode' = Exit(IF AllPassed(auth_enforcement_passed,
                                     fields_validation_passed)
                        THEN 0 ELSE 1)
    /\ pc' = "exited"
    /\ UNCHANGED <<inputVars, triggerVars, harnessVars, netVars>>

----------------------------------------------------------------------------
(* Initial states and specifications *)

InitCommon ==
    /\ OC_API_ENDPOINT = None
    /\ token = None
    /\ pkcs7 = None
    /\ fetchError = "none"
    /\ success = "unset"
    /\ auth_enforcement_passed = "unset"
    /\ pkcs7_signature = None
    /\ ec2_validation_passed = "unset"
    /\ fields_validation_passed = "unset"
    /\ calls = <<>>
    /\ answers = <<>>
    /\ out = <<>>
    /\ exitCode = Running

\* trigger_fatal_log started on a host whose config texts are among texts
InitTrigger(texts) ==
    /\ script = "trigger_fatal_log"
    /\ argv \in TriggerArgvs
    /\ fs \in [system : FileStates(texts), local : FileStates(texts)]
    /\ environ \in EnvValues(texts)
    /\ pc = "load"
    /\ InitCommon

\* test_local_auth reads no configuration
InitHarness ==
    /\ script = "test_local_auth"
    /\ argv \in HarnessArgvs
    /\ fs = [system |-> Absent, local |-> Absent]
    /\ environ = None
    /\ pc = "test_without_auth"
    /\ InitCommon

Init == InitTrigger(RunTexts) \/ InitHarness

Next ==
    \/ LoadApiEndpoint
    \/ MainValidate
    \/ GetImdsToken
    \/ FetchInstanceIdentity
    \/ MainCheckIdentity
    \/ SendFatalLog
    \/ MainExit
    \/ TestWithoutAuth
    \/ FetchEc2Identity
    \/ TestWithEc2Identity
    \/ SkipEc2Identity
    \/ TestWithMissingFields
    \/ HarnessExit

\* every run of either script
Spec == Init /\ [][Next]_vars

\* endpoint resolution alone, over every config text up to MaxConfLen
InitLoad == InitTrigger(Text(MaxConfLen))

NextLoad == LoadApiEndpoint

SpecLoad == InitLoad /\ [][NextLoad]_vars

----------------------------------------------------------------------------
(* Vocabulary of the properties *)

IsTrigger == script = "trigger_fatal_log"
IsHarness == script = "test_local_auth"
Exited == pc = "exited"

\* requests' own notion of an answered call that did not fail: Response.ok
Ok(r) == IsResponse(r) /\ r.status < 400

\* trigger_fatal_log issues its calls in a fixed order
TokenPutDone == IsTrigger /\ Len(answers) >= 1
PkcsGetDone == IsTrigger /\ Len(answers) >= 2
PostDone == IsTrigger /\ Len(answers) >= 3
TokenPutAnswer == answers[1]
PkcsGetAnswer == answers[2]
PostAnswer == answers[3]

\* a config file that exists, can be read and holds more than blanks
Usable(f) == f # Absent /\ f # Unreadable /\ Strip(f) # <<>>

NoEndpointResolves ==
    /\ ~Usable(fs.system)
    /\ ~Usable(fs.local)
    /\ (environ = None \/ environ = <<>>)

----------------------------------------------------------------------------
\* C1: in trigger_fatal_log, when neither config file yields a non-empty
\* value and the environment variable is unset or empty, the run goes from
\* the endpoint check straight to exit code 1 and issues no network call,
\* with or without an error-message argument.
C1_NoEndpointNoNetwork ==
    (IsTrigger /\ NoEndpointResolves) =>
        /\ calls = <<>>
        /\ pc \in {"load", "main", "exited"}
        /\ (Exited => exitCode = Exit(1))

C1_Witness ==
    /\ IsTrigger /\ NoEndpointResolves /\ Exited
    /\ fs.system = <<" ">> /\ environ = <<>>
    /\ Len(argv) >= 2
    /\ exitCode = Exit(1) /\ calls = <<>>

\* C2: in trigger_fatal_log, when the PKCS7 GET times out (token or not),
\* fetch_instance_identity returns None, no POST is ever issued and the
\* process exits with code 1.
C2_GetTimeoutNoPost ==
    (PkcsGetDone /\ IsTimeout(PkcsGetAnswer)) =>
        /\ pkcs7 = None
        /\ Len(calls) = 2
        /\ \A i \in DOMAIN calls : calls[i].method # "POST"
        /\ pc \in {"check_identity", "exited"}
        /\ (Exited => exitCode = Exit(1))

C2_Witness ==
    /\ PkcsGetDone /\ IsTimeout(PkcsGetAnswer) /\ Exited
    /\ Truthy(token)
    /\ pkcs7 = None /\ exitCode = Exit(1) /\ Len(calls) = 2

\* what a config file holds, as _load_api_endpoint would take it
FileContent(f) == IF f = Absent \/ f = Unreadable THEN f ELSE Strip(f)

BothFilesExist == fs.system # Absent /\ fs.local # Absent
BothFilesReadable ==
    BothFilesExist /\ fs.system # Unreadable /\ fs.local # Unreadable

\* C3 as stated: whenever both config files exist (and can be read), the
\* endpoint is the system file's content, whatever the contents.  Read
\* generously: contents compared after strip(), and no endpoint at all
\* taken for the content of a blank system file.
C3_SystemFileAlwaysWins ==
    (IsTrigger /\ pc = "main" /\ BothFilesReadable) =>
        \/ OC_API_ENDPOINT = FileContent(fs.system)
        \/ ~Truthy(OC_API_ENDPOINT) /\ FileContent(fs.system) = <<>>

\* C3, amended: when both config files exist, the endpoint is the system
\* file's stripped content if that file is readable and not blank;
\* otherwise the local file's stripped content if that one is readable and
\* not blank; otherwise the value of the environment variable.
C3_FirstUsableFileWins ==
    (IsTrigger /\ pc = "main" /\ BothFilesExist) =>
        OC_API_ENDPOINT =
            IF Usable(fs.system) THEN Strip(fs.system)
            ELSE IF Usable(fs.local) THEN Strip(fs.local)
            ELSE environ

C3_Witness ==
    /\ IsTrigger /\ pc = "main" /\ BothFilesExist
    /\ Usable(fs.system) /\ Usable(fs.local)
    /\ Strip(fs.system) # Strip(fs.local)
    /\ Truthy(environ)
    /\ OC_API_ENDPOINT = Strip(fs.system)

\* C4: in trigger_fatal_log, once the POST has been issued, the send is a
\* success and the exit code is 0 exactly when the answer has status 200,
\* whatever its body; anything else is a failure and exit code 1.
C4_SuccessIffStatus200 ==
    (PostDone /\ Exited) =>
        LET is200 == IsResponse(PostAnswer) /\ PostAnswer.status = 200
        IN /\ (exitCode = Exit(0) <=> is200)
           /\ (exitCode = Exit(1) <=> ~is200)
           /\ (success = "True" <=> is200)

\* the exit code as the PKCS7 GET and the POST decide it
ExitFrom(get, post) ==
    IF /\ Ok(get) /\ Truthy(get.body)
       /\ IsResponse(post) /\ post.status = 200 /\ post.json = "object"
    THEN Exit(0) ELSE Exit(1)

C5_WitnessWithToken ==
    /\ TokenPutDone /\ Ok(TokenPutAnswer) /\ Truthy(token)
    /\ PkcsGetDone
    /\ calls[2].headers = ("X-aws-ec2-metadata-token" :> token)

\* the error kind of the identity fetch, from the except clause that ran
FetchErrorKind ==
    CASE fetchError = "Timeout" -> "MetadataUnavailable"
      [] fetchError = "RequestException" -> "MetadataError"
      [] OTHER -> "none"

\* C6: in trigger_fatal_log, an identity fetch that times out or cannot
\* connect is a MetadataUnavailable ("are you on an instance?"), and any
\* other error status or transport error is a MetadataError.
C6_FailureKinds ==
    PkcsGetDone =>
        /\ PkcsGetAnswer.kind \in {"Timeout", "ConnectionError"} =>
              FetchErrorKind = "MetadataUnavailable"
        /\ (PkcsGetAnswer.kind = "RequestException"
              \/ RaisesForStatus(PkcsGetAnswer)) =>
              FetchErrorKind = "MetadataError"

\* test_local_auth issues the metadata GET second, when it issues it
HarnessGetDone ==
    /\ IsHarness /\ Len(answers) >= 2
    /\ calls[2].method = "GET"

\* C7: a successful identity fetch returns, and the POST carries in pkcs7,
\* the metadata response body stripped of surrounding whitespace, in
\* trigger_fatal_log and in test_local_auth alike.
C7_SignatureIsStrippedBody ==
    /\ (PkcsGetDone /\ fetchError = "none") =>
          /\ pkcs7 = Strip(PkcsGetAnswer.body)
          /\ Len(calls) >= 3 =>
                calls[3].json.pkcs7 = Strip(PkcsGetAnswer.body)
    /\ (HarnessGetDone /\ IsResponse(answers[2])
           /\ answers[2].status = 200) =>
          pkcs7_signature = Strip(answers[2].body)

\* the calls of test_local_auth, told apart by what they send
IsAssertion1(c) ==
    /\ c.method = "POST" /\ c.url = LOCAL_URL
    /\ c.json = [errorMessage |-> "Test without auth"]
IsAssertion2(c) ==
    /\ c.method = "POST" /\ c.url = LOCAL_URL
    /\ "pkcs7" \in DOMAIN c.json
IsAssertion3(c) ==
    /\ c.method = "POST" /\ c.url = LOCAL_URL
    /\ DOMAIN c.json = {"timestamp", "errorMessage"}

\* assertion 1 / assertion 3 was run and answered 401
Assertion1Holds ==
    \E i \in DOMAIN calls : IsAssertion1(calls[i]) /\ Rejected(answers[i])
Assertion3Ran == \E i \in DOMAIN calls : IsAssertion3(calls[i])
Assertion3Holds ==
    /\ Assertion3Ran
    /\ \A i \in DOMAIN calls : IsAssertion3(calls[i]) => Rejected(answers[i])

\* C8: in test_local_auth, when assertion 2 is skipped, the exit code is 0
\* exactly when assertion 1 and assertion 3 were both answered 401; and
\* assertion 3 is run in every run, whatever assertions 1 and 2 gave.
C8_SkippedExitIffOneAndThree ==
    (IsHarness /\ Exited) =>
        /\ Assertion3Ran
        /\ fields_validation_passed = PyBool(Assertion3Holds)
        /\ ec2_validation_passed = "None" =>
              (exitCode = Exit(0) <=> (Assertion1Holds /\ Assertion3Holds))

C8_Witness ==
    /\ IsHarness /\ Exited
    /\ ec2_validation_passed = "None"
    /\ use_ec2_metadata(argv)
    /\ Assertion1Holds /\ Assertion3Holds
    /\ exitCode = Exit(0)

\* C9 as stated: no run of either script issues more than three network
\* calls, and no call is issued twice.
C9_AtMostThreeCalls ==
    /\ Len(calls) <= 3
    /\ \A i, j \in DOMAIN calls : i # j => calls[i] # calls[j]

\* C9, amended: a run of trigger_fatal_log issues at most three network
\* calls; a run of test_local_auth issues at most four (the two or three
\* assertion POSTs and, with --use-ec2-metadata, the metadata GET), at most
\* two without the flag; and no call is issued twice.
C9_CallsBounded ==
    /\ IsTrigger => Len(calls) <= 3
    /\ IsHarness => Len(calls) <= 4
    /\ (IsHarness /\ ~use_ec2_metadata(argv)) => Len(calls) <= 2
    /\ \A i, j \in DOMAIN calls : i # j => calls[i] # calls[j]

C9_Witness ==
    /\ IsHarness /\ Exited
    /\ Len(calls) = 4
    /\ calls[2].method = "GET"
    /\ IsAssertion2(calls[3])

\* C10: in test_local_auth the exit code is 0 exactly when assertion 1 and
\* assertion 3 were both answered 401, whether assertion 2 passed, failed
\* or was skipped; a run whose live signature is rejected can exit 0.
C10_ExitIgnoresAssertionTwo ==
    (IsHarness /\ Exited) =>
        /\ ec2_validation_passed \in {"True", "False", "None"}
        /\ exitCode =
             Exit(IF Assertion1Holds /\ Assertion3Holds THEN 0 ELSE 1)

C10_Witness ==
    /\ IsHarness /\ Exited
    /\ ec2_validation_passed = "False"
    /\ \E i \in DOMAIN calls :
          IsAssertion2(calls[i]) /\ Rejected(answers[i])
    /\ exitCode = Exit(0)

====
